---- MODULE Spec2Model ----
(***************************************************************************)
(* The round engine and reward economy of CrashXPGame (src/app/page.tsx).  *)
(*                                                                         *)
(* The component keeps its state in React state objects (game, user,       *)
(* creator, autoPlay) and one ref (multiplierIntervalRef).  A handler      *)
(* reads the values of the render it was created in and writes through     *)
(* updater functions (prev => ...), which see the latest state.  Every     *)
(* handler, timer callback or resumed async function is one action; the    *)
(* component re-renders after it, so a handler called directly reads the   *)
(* current state, while a callback kept by a timer, a modal option or a    *)
(* memoized function reads the render it was created in: those renders     *)
(* are kept as Closure records.                                            *)
(*                                                                         *)
(* Units: multipliers are in hundredths (100 = 1.00x), the XP boost in     *)
(* tenths (10 = 1.0), time in whole seconds since the round started.       *)
(***************************************************************************)
EXTENDS Integers, Sequences, FiniteSets, Bags

\* ------------------------------------------------------------------ bounds
\* rounds one behaviour may start
MaxRounds == 2
\* seconds the climb clock is followed
MaxElapsed == 1
\* calls of autoPlayExecuteRound one behaviour may make
MaxAutoCalls == 2
\* boosts whose expiry is pending at the same time
MaxBoosts == 2
\* the days (UTC, counted from the first) on which the page is open
MaxDay == 8
\* entries in a fetched leaderboard
MaxBoard == 2

\* ------------------------------------------------------- program constants
StartXP == 1000
StartMultiplier == 100
HistoryCap == 10
SecondChanceCost == 200
WagerStep == 10
ShareBonus == 50
BigWin == 1000
\* crashPoint: null
NoCrashPoint == 0
\* userCashOutMultiplier: null
NoMultiplier == 0
NoBoost == 10
\* autoPlay.maxRounds
AutoMaxRounds == 10
AutoCashOutAt == 200
NoDate == -1
\* no record was handed to data.set yet
NoSave == -1
StreakBonus == 100

\* a generateCrashPoint whose lowest bucket starts at 1.00
generateCrashPointFromOne(random, second) ==
  IF random < 50 THEN 100 + (second * 50) \div 100
  ELSE IF random < 80 THEN 150 + (second * 150) \div 100
  ELSE IF random < 95 THEN 300 + (second * 700) \div 100
  ELSE 1000 + (second * 4000) \div 100

\* generateCrashPoint(), random and second being its two draws of
\* Math.random() in hundredths; the result is in hundredths, and exact for
\* an even second
generateCrashPoint(random, second) ==
  IF random < 50 THEN 101 + (second * 50) \div 100
  ELSE IF random < 80 THEN 150 + (second * 150) \div 100
  ELSE IF random < 95 THEN 300 + (second * 700) \div 100
  ELSE 1000 + (second * 4000) \div 100

\* the draws of Math.random() that are followed: the first at the edges of
\* its four buckets, the second at the bottom, the middle and the top
Randoms == {0, 49, 50, 79, 80, 94, 95, 99}
Seconds == {0, 50, 98}
\* every crash point these draws give
DrawnCrashPoints ==
  {generateCrashPoint(random, second) : random \in Randoms, second \in Seconds}

\* values generateCrashPoint is followed for (all above 1.00)
CrashPoints == {105, 150}
\* amounts handed to setWager
WagerInputs == {100}
\* xp of a stored user record
StoredXP == {40, 250}
\* values typed into the auto-play wager field
AutoWagerInputs == {5}
\* values typed into the max-rounds field
MaxRoundsInputs == {1}
\* values typed into the auto cash-out field
CashOutAtInputs == {102}
\* the boosts of the shop, by their multiplier in tenths
Boosts == [b \in {"2x_weekend", "3x_hour", "5x_lucky"} |->
             IF b = "2x_weekend" THEN 20 ELSE IF b = "3x_hour" THEN 30 ELSE 50]
\* the boost types handed to purchaseXPBoost: those of the shop and one more
BoostTypes == DOMAIN Boosts \cup {"unknown"}
\* how a purchase goes: the status of the payment payments.create resolved
\* with, "none" for no payment, "thrown" for a rejection; and, where the SDK
\* has no payments, the option clicked in the modal of the simulated purchase
Payments == {"succeeded", "failed", "pending", "none", "thrown", "Buy Now", "Cancel"}
\* the events of startRandomFOMOEvent; NoBoost stands for no multiplier
FomoEvents ==
  {[type |-> "2x_xp_boost", multiplier |-> 20], [type |-> "lucky_hour", multiplier |-> NoBoost]}
\* the instants, in hours since the first UTC midnight, at which the page
\* reads the clock: the first hour, noon and the last hour of each day
Hours == {24 * d + k : d \in 0..MaxDay, k \in {0, 12, 23}}
\* the hours between an instant and the same local time of the day before:
\* 24, or 23 and 25 across a daylight-saving change
DayLengths == {23, 24, 25}
\* dailyStreak and lastPlayDate of a stored user record
StoredDailyStreaks == {0, 1, 2}
StoredPlayDates == {NoDate, 0}
\* currentStreak (and winStreak) of a stored user record
StoredStreaks == {3, 4}
\* the rewards of a Mystery Box, in the order of the list; a boost's amount
\* is its multiplier in tenths, the cosmetic's the xp paid for one owned
rewards ==
  <<[type |-> "xp", amount |-> 500, weight |-> 5],
    [type |-> "xp", amount |-> 1000, weight |-> 2],
    [type |-> "cosmetic", amount |-> 200, weight |-> 1],
    [type |-> "multiplier_boost", amount |-> 11, weight |-> 2]>>
\* the values of Math.random() * totalWeight that are followed, in tenths:
\* both ends of the span of every reward
RewardDraws == {0, 49, 50, 69, 70, 79, 80, 99}

VARIABLES
  game,               \* useState game
  user,               \* useState user
  signedIn,           \* isAuthReady && user.id !== 'guest_user'
  xpBoostMultiplier,  \* creator.xpBoostMultiplier
  autoPlay,           \* useState autoPlay
  climb,              \* the memoized startMultiplierClimb: the render it closes over
  interval,           \* multiplierIntervalRef and the callback it runs
  timers,             \* pending setTimeout callbacks (a bag)
  awaiting,           \* async handlers suspended at an awaited SDK call (a bag)
  modal,              \* the second-chance modal and its option closures
  deducted,           \* the amount placeWager took from xp for the latest round
  rounds,             \* rounds started so far
  autoCalls,          \* calls of autoPlayExecuteRound so far
  saved,              \* the xp of the record last handed to data.set
  leaderboard         \* leaderboard.allTime, the list the board shows

vars == <<game, user, signedIn, xpBoostMultiplier, autoPlay, climb, interval,
          timers, awaiting, modal, deducted, rounds, autoCalls, saved,
          leaderboard>>

\* ----------------------------------------------------------------- helpers
Max(a, b) == IF a > b THEN a ELSE b
Abs(a) == IF a < 0 THEN 0 - a ELSE a

\* a bag with one more, or one less, copy of e
Put(b, e) == b (+) SetToBag({e})
Drop(b, e) == b (-) SetToBag({e})

Take(s, n) == IF Len(s) <= n THEN s ELSE SubSeq(s, 1, n)

\* what the callbacks created in a render read of it
Closure(g, u, s, a) ==
  [userCashedOut |-> g.userCashedOut,
   userWagerXP   |-> g.userWagerXP,
   crashPoint    |-> g.crashPoint,
   signedIn      |-> s,
   xp            |-> u.xp,
   enabled       |-> a.enabled,
   wagerAmount   |-> a.wagerAmount]

\* what updateUserData reads of its render
SaveClosure(c) == [signedIn |-> c.signedIn, xp |-> c.xp]

\* an updateUserData without the check for a guest
updateUserDataOfAnyone(c) == c.xp

\* updateUserData() of the render c: the xp of the record it hands to
\* data.set, the one handed before when it returns at its check for a guest
updateUserData(c) == IF c.signedIn THEN c.xp ELSE saved

\* what resetRound, and the timeout that guards it, read of their render
ResetClosure(c) == [enabled |-> c.enabled, wagerAmount |-> c.wagerAmount]

\* useCallback keeps startMultiplierClimb until game.crashPoint or
\* game.currentMultiplier (through updateMultiplierVisuals) changes between
\* two renders; crashGame is not among its dependencies.
Rerender(g, u, s, a) ==
  IF g.crashPoint # game.crashPoint \/ g.currentMultiplier # game.currentMultiplier
    THEN Closure(g, u, s, a)
    ELSE climb

\* a climb with the sign of the quadratic term turned
MultiplierFalling(t) == 100 - 10 * t * t

\* 1 + (elapsed / 1000)^2 * 0.1, elapsed in seconds, result in hundredths
Multiplier(t) == 100 + 10 * t * t

\* Math.floor(wager * multiplier * xpBoostMultiplier)
Winnings(wager, multiplier, boost) == (wager * multiplier * boost) \div 1000

\* --------------------------------------------------------------------- Init
InitGame ==
  [isRunning |-> FALSE, isCrashed |-> FALSE, isWaiting |-> TRUE,
   userCashedOut |-> FALSE, currentMultiplier |-> StartMultiplier,
   crashPoint |-> NoCrashPoint, userWagerXP |-> 50,
   userCashOutMultiplier |-> NoMultiplier, userWinningsXP |-> 0,
   lastRounds |-> <<>>, autoCashOut |-> FALSE]

InitUser ==
  [xp |-> StartXP, totalWagered |-> 0, totalWon |-> 0, gamesPlayed |-> 0,
   biggestWin |-> 0, biggestMultiplier |-> 0, winStreak |-> 0,
   currentStreak |-> 0, unlockedCosmetics |-> {"default"},
   dailyStreak |-> 0, lastPlayDate |-> NoDate]

InitAutoPlay ==
  [enabled |-> FALSE, wagerAmount |-> 50, currentRound |-> 0,
   maxRounds |-> AutoMaxRounds, isExecutingAutoRound |-> FALSE,
   cashOutAt |-> AutoCashOutAt, stopOnWin |-> FALSE, stopOnLoss |-> FALSE]

NoInterval == [active |-> FALSE]

\* The state once the mount effect has run: initializeWhopUser() found no
\* session (guest), or a session whose fetchUserData() found a stored
\* record.  The callbacks memoized by the first render still close over the
\* guest it rendered.
Init ==
  /\ game = InitGame
  /\ \/ signedIn = FALSE /\ user = InitUser
     \/ signedIn = TRUE /\ \E x \in StoredXP : user = [InitUser EXCEPT !.xp = x]
  /\ xpBoostMultiplier = NoBoost
  /\ autoPlay = InitAutoPlay
  /\ climb = Closure(InitGame, InitUser, FALSE, InitAutoPlay)
  /\ interval = NoInterval
  /\ timers = EmptyBag
  /\ awaiting = EmptyBag
  /\ modal = [show |-> FALSE]
  /\ deducted = 0
  /\ rounds = 0
  /\ autoCalls = 0
  /\ saved = NoSave
  /\ leaderboard = <<>>

\* ------------------------------------------------------------------ actions
\* setWager(amount)
setWager(amount) ==
  /\ game' = [game EXCEPT !.userWagerXP = Max(10, (amount \div WagerStep) * WagerStep)]
  /\ climb' = Rerender(game', user, signedIn, autoPlay)
  /\ UNCHANGED <<user, signedIn, xpBoostMultiplier, autoPlay, interval, timers,
                 awaiting, modal, deducted, rounds, autoCalls, saved, leaderboard>>

\* the checks of placeWager without the one for a running round
wagerRejectedUnlessRunning(g, u) ==
  \/ g.userWagerXP <= 0
  \/ g.userWagerXP > u.xp

\* the checks of placeWager without the one for the balance
wagerRejectedUnlessRunningOrZero(g, u) ==
  \/ g.isRunning
  \/ g.userWagerXP <= 0

\* placeWager: the checks that end it before anything is changed
wagerRejected(g, u) ==
  \/ g.isRunning
  \/ g.userWagerXP <= 0
  \/ g.userWagerXP > u.xp

\* a placeWager that deducts from the xp of its own render only once the
\* round has settled: the balance is left as it was
deductWagerLate(u, wager) == u

\* placeWager: setUser(prev => ({ ...prev, xp: prev.xp - wager }))
deductWager(u, wager) == [u EXCEPT !.xp = u.xp - wager]

\* what placeWager changes once its checks passed, with the startRound() and
\* startMultiplierClimb() it calls: wager is the game.userWagerXP and cl the
\* memoized startMultiplierClimb of the render the handler belongs to, a the
\* autoPlay state of the render that follows
startWagerFrom(wager, cl, a, points) ==
  /\ \E cp \in points :
       game' = [game EXCEPT !.userWagerXP = wager, !.isWaiting = FALSE,
                  !.isRunning = TRUE, !.userCashedOut = FALSE,
                  !.isCrashed = FALSE,
                  !.userCashOutMultiplier = NoMultiplier,
                  !.userWinningsXP = 0,
                  !.crashPoint = cp, !.currentMultiplier = StartMultiplier]
  /\ user' = deductWager(user, wager)
  /\ deducted' = wager
  \* the callback closes over the crashPoint and the crashGame of the
  \* memoized startMultiplierClimb, not over the crashPoint set above
  /\ interval' = [active |-> TRUE, elapsed |-> 0,
                  lastMultiplier |-> StartMultiplier,
                  crashPoint |-> cl.crashPoint, crashGame |-> cl]
  /\ rounds' = rounds + 1
  \* generateCrashPoint() draws a fresh value: game.crashPoint changes
  /\ climb' = Closure(game', user', signedIn, a)

\* the same, with a crash point of CrashPoints
startWager(wager, cl, a) == startWagerFrom(wager, cl, a, CrashPoints)

\* placeWager(), called in the current render, generateCrashPoint()
\* returning one of points
placeWagerFrom(points) ==
  IF wagerRejected(game, user)
    THEN UNCHANGED vars
    ELSE
      /\ rounds < MaxRounds
      /\ startWagerFrom(game.userWagerXP, climb, autoPlay, points)
      /\ UNCHANGED <<signedIn, xpBoostMultiplier, autoPlay, timers, awaiting, modal,
                     autoCalls, saved, leaderboard>>

\* placeWager(), called in the current render
placeWager == placeWagerFrom(CrashPoints)

\* the setInterval callback of startMultiplierClimb, every 10 ms; dt is the
\* time that passed since the previous call
tickAt(dt) ==
  /\ interval.active
  /\ LET elapsed == interval.elapsed + dt
         newMultiplier == Multiplier(elapsed) IN
       /\ elapsed <= MaxElapsed
       /\ IF interval.crashPoint # NoCrashPoint /\ newMultiplier >= interval.crashPoint
            THEN /\ game' = [game EXCEPT !.currentMultiplier = interval.crashPoint]
                 /\ interval' = NoInterval
                 /\ timers' = Put(timers, [kind |-> "crashGame",
                                              closure |-> interval.crashGame])
            ELSE IF Abs(newMultiplier - interval.lastMultiplier) > 1
              THEN /\ game' = [game EXCEPT !.currentMultiplier = newMultiplier]
                   /\ interval' = [interval EXCEPT !.elapsed = elapsed,
                                     !.lastMultiplier = newMultiplier]
                   /\ UNCHANGED timers
              ELSE /\ interval' = [interval EXCEPT !.elapsed = elapsed]
                   /\ UNCHANGED <<game, timers>>
  /\ climb' = Rerender(game', user, signedIn, autoPlay)
  /\ UNCHANGED <<user, signedIn, xpBoostMultiplier, autoPlay, awaiting, modal,
                 deducted, rounds, autoCalls, saved, leaderboard>>

tick == \E dt \in 0..1 : tickAt(dt)

\* resetRound() of the render c
resetRound(g, c) ==
  [g EXCEPT !.isWaiting = TRUE, !.isRunning = FALSE, !.isCrashed = FALSE,
     !.userCashedOut = FALSE, !.userWagerXP = c.wagerAmount,
     !.userCashOutMultiplier = NoMultiplier, !.userWinningsXP = 0,
     !.currentMultiplier = StartMultiplier]

\* a history that takes the new entry at its end
pushRoundLast(g) ==
  [g EXCEPT !.lastRounds = Take(g.lastRounds \o <<g.currentMultiplier>>, HistoryCap)]

\* lastRounds: [prev.currentMultiplier, ...prev.lastRounds].slice(0, 10)
pushRound(g) ==
  [g EXCEPT !.lastRounds = Take(<<g.currentMultiplier>> \o g.lastRounds, HistoryCap)]

\* the timeouts crashGame sets after a loss: Math.random() < 0.3 picks the offer
afterLoss(c) ==
  {[kind |-> "offerSecondChance", closure |-> c], [kind |-> "reset", closure |-> ResetClosure(c)]}

\* updateWinStreak(won) on the user record, for a signed-in player
updateWinStreak(u, won) ==
  IF won
    THEN [u EXCEPT !.currentStreak = u.currentStreak + 1,
            !.winStreak = Max(u.currentStreak + 1, u.winStreak)]
    ELSE [u EXCEPT !.currentStreak = 0]

\* a crashGame that takes the lost wager from xp a second time
lossStatsTakingWager(u, c) ==
  [u EXCEPT !.totalWagered = u.totalWagered + c.userWagerXP,
     !.gamesPlayed = u.gamesPlayed + 1, !.xp = u.xp - c.userWagerXP]

\* crashGame: the stats of a loss, from the wager of the render c
lossStats(u, c) ==
  [u EXCEPT !.totalWagered = u.totalWagered + c.userWagerXP,
     !.gamesPlayed = u.gamesPlayed + 1]

\* crashGame(), called by the timeout the clamping tick set; it runs in the
\* render the memoized startMultiplierClimb closes over
crashGame(t) ==
  /\ t.kind = "crashGame"
  /\ LET c == t.closure
         rest == Drop(timers, t)
         crashed == [game EXCEPT !.isRunning = FALSE, !.isCrashed = TRUE] IN
       /\ interval' = NoInterval
       /\ IF ~c.userCashedOut
            THEN IF c.signedIn
              THEN \* suspended in updateWinStreak at await updateUserData()
                   /\ user' = updateWinStreak(lossStats(user, c), FALSE)
                   /\ game' = crashed
                   /\ timers' = rest
                   /\ awaiting' = Put(awaiting, [kind |-> "crashGame", closure |-> c])
              ELSE /\ \E n \in afterLoss(c) : timers' = Put(rest, n)
                   /\ game' = pushRound(crashed)
                   /\ UNCHANGED <<user, awaiting>>
            ELSE /\ timers' = Put(rest, [kind |-> "reset", closure |-> ResetClosure(c)])
                 /\ game' = pushRound(crashed)
                 /\ UNCHANGED <<user, awaiting>>
  \* updateWinStreak's updateUserData(), or the one that ends crashGame
  /\ saved' = updateUserData(t.closure)
  /\ climb' = Rerender(game', user', signedIn, autoPlay)
  /\ UNCHANGED <<signedIn, xpBoostMultiplier, autoPlay, modal, deducted, rounds, autoCalls, leaderboard>>

\* the check of cashOut without the one for a running round
cashOutRejectedIfCashedOut(g) == g.userCashedOut

\* cashOut: if (!game.isRunning || game.userCashedOut) return
cashOutRejected(g) == ~g.isRunning \/ g.userCashedOut

\* a Mystery Box on every win
mysteryBoxDueOnEveryWin(newCurrentStreak) == newCurrentStreak > 0

\* updateWinStreak: newCurrentStreak > 0 && newCurrentStreak % 5 === 0
mysteryBoxDue(newCurrentStreak) ==
  newCurrentStreak > 0 /\ newCurrentStreak % 5 = 0

\* what cashOut reads of the render it was created in
CashOutClosure(g, u, s, a, boost) ==
  [isRunning |-> g.isRunning, userCashedOut |-> g.userCashedOut,
   currentMultiplier |-> g.currentMultiplier, userWagerXP |-> g.userWagerXP,
   signedIn |-> s, xp |-> u.xp, enabled |-> a.enabled,
   wagerAmount |-> a.wagerAmount, boost |-> boost]

\* the cashOut() of the render c; ts are the pending timeouts
cashOutOf(c, ts) ==
  IF cashOutRejected(c)
    THEN UNCHANGED <<game, user, interval, awaiting, climb, saved>> /\ timers' = ts
    ELSE
      LET multiplier == c.currentMultiplier
          winnings == Winnings(c.userWagerXP, multiplier, c.boost)
          paid == [user EXCEPT !.xp = user.xp + winnings,
                     !.totalWon = user.totalWon + winnings,
                     !.totalWagered = user.totalWagered + c.userWagerXP,
                     !.gamesPlayed = user.gamesPlayed + 1,
                     !.biggestWin = Max(winnings, user.biggestWin),
                     !.biggestMultiplier = Max(multiplier, user.biggestMultiplier)] IN
      /\ game' = [game EXCEPT !.userCashedOut = TRUE,
                    !.userCashOutMultiplier = multiplier,
                    !.userWinningsXP = winnings,
                    !.isRunning = FALSE, !.isCrashed = FALSE]
      /\ interval' = NoInterval
      /\ IF c.signedIn
           THEN \* suspended in updateWinStreak at await updateUserData()
                /\ user' = updateWinStreak(paid, TRUE)
                /\ awaiting' = Put(awaiting, [kind |-> "cashOut", closure |-> ResetClosure(c),
                                                save |-> SaveClosure(c)])
                     (+) (IF winnings > BigWin
                            THEN SetToBag({[kind |-> "share", save |-> SaveClosure(c)]})
                            ELSE EmptyBag)
                /\ timers' = ts
                     (+) (IF mysteryBoxDue(user.currentStreak + 1)
                            THEN SetToBag({[kind |-> "triggerMysteryBox",
                                            save |-> SaveClosure(c)]})
                            ELSE EmptyBag)
           ELSE /\ user' = paid
                /\ timers' = Put(ts, [kind |-> "reset", closure |-> ResetClosure(c)])
                /\ UNCHANGED awaiting
      \* updateWinStreak's updateUserData()
      /\ saved' = updateUserData(c)
      /\ climb' = Rerender(game', user', signedIn, autoPlay)

\* cashOut()
cashOut ==
  /\ cashOutOf(CashOutClosure(game, user, signedIn, autoPlay, xpBoostMultiplier), timers)
  /\ UNCHANGED <<signedIn, xpBoostMultiplier, autoPlay, modal, deducted, rounds, autoCalls, leaderboard>>

\* an updateUserData whose failed write puts xp back to the record's
userRolledBack(u, ok) == IF ok THEN u ELSE [u EXCEPT !.xp = saved]

\* updateUserData once data.set has settled, ok telling whether it resolved:
\* the catch logs the error and shows a toast, the user state stays
userAfterSave(u, ok) == u

\* the call a suspended handler awaits settles, ok telling whether it
\* resolved or was rejected, and the handler runs on
settle(w, ok) ==
  LET rest == Drop(awaiting, w) IN
  /\ CASE w.kind = "crashGame" ->
            \* crashGame after await updateWinStreak(false)
            /\ \E n \in afterLoss(w.closure) : timers' = Put(timers, n)
            /\ game' = pushRound(game)
            /\ user' = userAfterSave(user, ok)
            /\ awaiting' = rest
            \* the updateUserData() that ends crashGame
            /\ saved' = updateUserData(w.closure)
            /\ UNCHANGED modal
       [] w.kind = "cashOut" ->
            \* cashOut after await updateWinStreak(true) and await
            \* updateUserData(), which change nothing in between
            /\ timers' = Put(timers, [kind |-> "reset", closure |-> w.closure])
            /\ user' = userAfterSave(user, ok)
            /\ awaiting' = rest
            /\ saved' = updateUserData(w.save)
            /\ UNCHANGED <<game, modal>>
       [] w.kind = "share" ->
            \* createShareableAchievement: the clipboard write resolved
            \* (the bonus, and an updateUserData() it does not await) or
            \* was rejected
            /\ user' = IF ok THEN [user EXCEPT !.xp = user.xp + ShareBonus] ELSE user
            /\ awaiting' = rest
            /\ saved' = IF ok THEN updateUserData(w.save) ELSE saved
            /\ UNCHANGED <<game, timers, modal>>
       [] w.kind = "secondChance" ->
            \* the Pay option after await updateUserData()
            /\ game' = resetRound(game, w.closure)
            /\ user' = userAfterSave(user, ok)
            /\ modal' = [show |-> FALSE]
            /\ awaiting' = rest
            /\ UNCHANGED <<timers, saved>>
  /\ climb' = Rerender(game', user', signedIn, autoPlay)
  /\ UNCHANGED <<signedIn, xpBoostMultiplier, autoPlay, interval, deducted, rounds, autoCalls, leaderboard>>

resume(w) == \E ok \in BOOLEAN : settle(w, ok)

\* the timeout set after a settlement: if (!autoPlay.enabled) resetRound()
reset(t) ==
  /\ t.kind = "reset"
  /\ timers' = Drop(timers, t)
  /\ game' = IF ~t.closure.enabled THEN resetRound(game, t.closure) ELSE game
  /\ climb' = Rerender(game', user, signedIn, autoPlay)
  /\ UNCHANGED <<user, signedIn, xpBoostMultiplier, autoPlay, interval, awaiting,
                 modal, deducted, rounds, autoCalls, saved, leaderboard>>

\* offerSecondChance(), called by the timeout crashGame set
offerSecondChance(t) ==
  /\ t.kind = "offerSecondChance"
  /\ timers' = Drop(timers, t)
  /\ LET c == t.closure IN
       IF ~c.signedIn
         THEN /\ game' = resetRound(game, c)
              /\ UNCHANGED modal
         ELSE /\ modal' = [show |-> TRUE, closure |-> c]
              /\ UNCHANGED game
  /\ climb' = Rerender(game', user, signedIn, autoPlay)
  /\ UNCHANGED <<user, signedIn, xpBoostMultiplier, autoPlay, interval, awaiting, deducted, rounds, autoCalls, saved, leaderboard>>

\* the modal option "Pay 200 XP"
paySecondChance ==
  /\ modal.show
  /\ LET c == modal.closure IN
       IF c.xp >= SecondChanceCost
         THEN \* the option is not clicked again while its handler is suspended
              /\ \A w \in BagToSet(awaiting) : w.kind # "secondChance"
              /\ user' = [user EXCEPT !.xp = user.xp - SecondChanceCost,
                            !.totalWagered = user.totalWagered - c.userWagerXP,
                            !.gamesPlayed = user.gamesPlayed - 1]
              /\ awaiting' = Put(awaiting, [kind |-> "secondChance", closure |-> ResetClosure(c)])
              /\ saved' = updateUserData(c)
              /\ UNCHANGED <<game, modal>>
         ELSE /\ game' = resetRound(game, c)
              /\ modal' = [show |-> FALSE]
              /\ UNCHANGED <<user, awaiting, saved>>
  /\ climb' = Rerender(game', user', signedIn, autoPlay)
  /\ UNCHANGED <<signedIn, xpBoostMultiplier, autoPlay, interval, timers, deducted, rounds, autoCalls, leaderboard>>

\* the modal option "No thanks"
declineSecondChance ==
  /\ modal.show
  /\ game' = resetRound(game, modal.closure)
  /\ modal' = [show |-> FALSE]
  /\ climb' = Rerender(game', user, signedIn, autoPlay)
  /\ UNCHANGED <<user, signedIn, xpBoostMultiplier, autoPlay, interval, timers,
                 awaiting, deducted, rounds, autoCalls, saved, leaderboard>>

Next ==
  \/ \E amount \in WagerInputs : setWager(amount)
  \/ placeWager
  \/ tick
  \/ cashOut
  \/ \E t \in BagToSet(timers) : crashGame(t)
  \/ \E t \in BagToSet(timers) : reset(t)
  \/ \E t \in BagToSet(timers) : offerSecondChance(t)
  \/ \E w \in BagToSet(awaiting) : resume(w)
  \/ paySecondChance
  \/ declineSecondChance

Spec == Init /\ [][Next]_vars

\* a session whose crash points are those of the followed draws
NextCrashPoint ==
  \/ \E random \in Randoms : \E second \in Seconds :
       placeWagerFrom({generateCrashPoint(random, second)})
  \/ tick
  \/ cashOut
  \/ \E t \in BagToSet(timers) : crashGame(t)
  \/ \E t \in BagToSet(timers) : reset(t)
  \/ \E w \in BagToSet(awaiting) : resume(w)

SpecCrashPoint == Init /\ [][NextCrashPoint]_vars

\* ---------------------------------------------------------------- auto-play
\* stopOnWin, stopOnLoss and game.autoCashOut keep their initial value false.

\* what autoPlayExecuteRound, and the placeWager it calls, read of their render
AutoClosure(g, u, a, cl) ==
  [enabled |-> a.enabled, currentRound |-> a.currentRound,
   maxRounds |-> a.maxRounds, wagerAmount |-> a.wagerAmount,
   cashOutAt |-> a.cashOutAt, stopOnWin |-> a.stopOnWin,
   stopOnLoss |-> a.stopOnLoss,
   xp |-> u.xp, isRunning |-> g.isRunning, isWaiting |-> g.isWaiting,
   isCrashed |-> g.isCrashed, userCashedOut |-> g.userCashedOut,
   currentMultiplier |-> g.currentMultiplier, autoCashOut |-> g.autoCashOut,
   userWagerXP |-> g.userWagerXP, climb |-> cl,
   cashOut |-> CashOutClosure(g, u, signedIn, a, xpBoostMultiplier)]

\* a stop that keeps the round counter
autoPlayStoppedKeepingRound(a) ==
  [a EXCEPT !.enabled = FALSE, !.isExecutingAutoRound = FALSE]

\* autoPlayStop: the updater it hands to setAutoPlay
autoPlayStopped(a) ==
  [a EXCEPT !.enabled = FALSE, !.currentRound = 0, !.isExecutingAutoRound = FALSE]

\* autoPlayExecuteRound() of the render c; a is the autoPlay state the
\* updaters of this step have produced so far, ts the pending timeouts
autoPlayExecuteRound(c, a, ts) ==
  /\ autoCalls < MaxAutoCalls
  /\ autoCalls' = autoCalls + 1
  /\ IF (~c.enabled \/ c.currentRound >= c.maxRounds \/ c.xp < c.wagerAmount)
       THEN \* autoPlayStop()
            /\ autoPlay' = autoPlayStopped(a)
            /\ timers' = ts
            /\ UNCHANGED <<game, user, deducted, interval, rounds, climb>>
       ELSE /\ autoPlay' = [a EXCEPT !.currentRound = a.currentRound + 1]
            \* await placeWager(): the placeWager of the render c
            /\ IF wagerRejected(c, c)
                 THEN UNCHANGED <<game, user, deducted, interval, rounds, climb>>
                 ELSE startWager(c.userWagerXP, c.climb, autoPlay')
            \* checkCashOutInterval, every 50 ms
            /\ timers' = Put(ts, [kind |-> "autoPoll", closure |-> c])

\* autoPlayStart()
autoPlayStart ==
  IF ~signedIn \/ autoPlay.isExecutingAutoRound
    THEN UNCHANGED vars
    ELSE
      /\ IF game.isRunning
           THEN \* waitForRoundEnd polls the game.isRunning of this render,
                \* which is true: it never calls autoPlayExecuteRound
                /\ autoPlay' = [autoPlay EXCEPT !.enabled = TRUE, !.currentRound = 0]
                /\ UNCHANGED <<game, user, deducted, interval, rounds, climb, timers,
                               autoCalls>>
           ELSE autoPlayExecuteRound(
                  AutoClosure(game, user, autoPlay, climb),
                  [autoPlay EXCEPT !.enabled = TRUE, !.currentRound = 0,
                     !.isExecutingAutoRound = TRUE],
                  timers)
      /\ UNCHANGED <<signedIn, xpBoostMultiplier, awaiting, modal, saved, leaderboard>>

\* autoPlayStop()
autoPlayStop ==
  /\ autoPlay' = autoPlayStopped(autoPlay)
  /\ UNCHANGED <<game, user, signedIn, xpBoostMultiplier, climb, interval, timers,
                 awaiting, modal, deducted, rounds, autoCalls, saved, leaderboard>>

\* the checkCashOutInterval callback of the render c, at a firing that
\* does something: while c.isRunning and the cash-out test fails it returns
autoPoll(t) ==
  LET c == t.closure
      rest == Drop(timers, t) IN
  /\ t.kind = "autoPoll"
  /\ IF ~c.isRunning
       THEN /\ IF (c.isWaiting
                    \/ (c.stopOnWin /\ c.userCashedOut)
                    \/ (c.stopOnLoss /\ c.isCrashed /\ ~c.userCashedOut))
                 THEN \* autoPlayStop()
                      /\ autoPlay' = autoPlayStopped(autoPlay)
                      /\ timers' = rest
                 ELSE \* setTimeout(() => autoPlayExecuteRound(), 3000)
                      /\ timers' = Put(rest, [kind |-> "autoNext", closure |-> c])
                      /\ UNCHANGED autoPlay
            /\ UNCHANGED <<game, user, climb, interval, awaiting, saved>>
       ELSE \* cashOut() of the render c, then clearInterval
            /\ c.autoCashOut /\ c.currentMultiplier >= c.cashOutAt
            /\ cashOutOf(c.cashOut, rest)
            /\ UNCHANGED autoPlay
  /\ UNCHANGED <<signedIn, xpBoostMultiplier, modal, deducted, rounds, autoCalls, leaderboard>>

\* the timeout set by the checkCashOutInterval callback
autoNext(t) ==
  /\ t.kind = "autoNext"
  /\ autoPlayExecuteRound(t.closure, autoPlay, Drop(timers, t))
  /\ UNCHANGED <<signedIn, xpBoostMultiplier, awaiting, modal, saved, leaderboard>>

\* the auto-play wager field, and the effect that copies it to the wager
setAutoPlayWager(amount) ==
  /\ autoPlay' = [autoPlay EXCEPT !.wagerAmount = amount]
  /\ game' = [game EXCEPT !.userWagerXP = amount]
  /\ UNCHANGED <<user, signedIn, xpBoostMultiplier, climb, interval, timers,
                 awaiting, modal, deducted, rounds, autoCalls, saved, leaderboard>>

\* A signed-in session: auto-play is refused to a guest.
InitAuto == Init /\ signedIn

\* The player places the first wager by hand; the later ones are auto-play's.
NextAuto ==
  \/ rounds = 0 /\ placeWager
  \/ tick
  \/ cashOut
  \/ \E t \in BagToSet(timers) : crashGame(t)
  \/ \E t \in BagToSet(timers) : reset(t)
  \/ \E w \in BagToSet(awaiting) : resume(w)
  \/ autoPlayStart
  \/ autoPlayStop
  \/ \E t \in BagToSet(timers) : autoPoll(t)
  \/ \E t \in BagToSet(timers) : autoNext(t)

SpecAuto == InitAuto /\ [][NextAuto]_vars

\* ------------------------------------------------- Mystery Box and boosts
\* a boost that never ends
activateXPBoostForGood(multiplier, ts) ==
  /\ xpBoostMultiplier' = multiplier
  /\ timers' = ts

\* activateXPBoost(boost), ts being the pending timeouts: the boost, and the
\* timeout that ends it
activateXPBoost(multiplier, ts) ==
  /\ xpBoostMultiplier' = multiplier
  /\ timers' = Put(ts, [kind |-> "boostExpiry", multiplier |-> multiplier])

\* the timeout of activateXPBoost
boostExpiry(t) ==
  /\ t.kind = "boostExpiry"
  /\ xpBoostMultiplier' = NoBoost
  /\ timers' = Drop(timers, t)
  /\ UNCHANGED <<game, user, signedIn, autoPlay, climb, interval, awaiting, modal,
                 deducted, rounds, autoCalls, saved, leaderboard>>

\* a walk of the list that does not take the weights passed from random
RECURSIVE walkKeepingRandom(_, _, _)
walkKeepingRandom(rewardsList, i, random) ==
  IF i > Len(rewardsList)
    THEN [reward |-> rewardsList[1], fallback |-> TRUE]
    ELSE IF random < 10 * rewardsList[i].weight
      THEN [reward |-> rewardsList[i], fallback |-> FALSE]
      ELSE walkKeepingRandom(rewardsList, i + 1, random)

\* the loop of getWeightedRandomReward from the i-th reward on, random (in
\* tenths) being what is left of the draw; fallback tells that the loop
\* ended without a reward and the first one is returned
RECURSIVE walk(_, _, _)
walk(rewardsList, i, random) ==
  IF i > Len(rewardsList)
    THEN [reward |-> rewardsList[1], fallback |-> TRUE]
    ELSE IF random < 10 * rewardsList[i].weight
      THEN [reward |-> rewardsList[i], fallback |-> FALSE]
      ELSE walk(rewardsList, i + 1, random - 10 * rewardsList[i].weight)

\* getWeightedRandomReward(rewardsList), random being Math.random() *
\* totalWeight in tenths
getWeightedRandomReward(rewardsList, random) == walk(rewardsList, 1, random)

\* the timeout updateWinStreak sets on a fifth win: triggerMysteryBox(), up
\* to its own timeout, and createShareableAchievement('win_streak'), up to
\* the clipboard write; random is the draw of getWeightedRandomReward
triggerMysteryBoxDrawing(t, random) ==
  /\ t.kind = "triggerMysteryBox"
  /\ IF signedIn
       THEN /\ LET randomReward == getWeightedRandomReward(rewards, random).reward IN
                 timers' = Put(Drop(timers, t),
                               [kind |-> "mysteryReward", reward |-> randomReward,
                                save |-> t.save])
            /\ awaiting' = Put(awaiting, [kind |-> "share", save |-> t.save])
       ELSE /\ timers' = Drop(timers, t)
            /\ UNCHANGED awaiting
  /\ UNCHANGED <<game, user, signedIn, xpBoostMultiplier, autoPlay, climb, interval,
                 modal, deducted, rounds, autoCalls, saved, leaderboard>>

triggerMysteryBox(t) == \E random \in RewardDraws : triggerMysteryBoxDrawing(t, random)

\* the timeout of triggerMysteryBox: the reward is handed out
mysteryReward(t) ==
  LET r == t.reward
      rest == Drop(timers, t) IN
  /\ t.kind = "mysteryReward"
  /\ CASE r.type = "xp" ->
            /\ user' = [user EXCEPT !.xp = user.xp + r.amount]
            /\ timers' = rest
            /\ UNCHANGED xpBoostMultiplier
       [] r.type = "cosmetic" ->
            /\ user' = IF "golden_ring" \notin user.unlockedCosmetics
                         THEN [user EXCEPT !.unlockedCosmetics =
                                 user.unlockedCosmetics \cup {"golden_ring"}]
                         ELSE [user EXCEPT !.xp = user.xp + r.amount]
            /\ timers' = rest
            /\ UNCHANGED xpBoostMultiplier
       [] r.type = "multiplier_boost" ->
            /\ activateXPBoost(r.amount, rest)
            /\ UNCHANGED user
  \* the updateUserData() that ends the timeout
  /\ saved' = updateUserData(t.save)
  /\ climb' = Rerender(game, user', signedIn, autoPlay)
  /\ UNCHANGED <<game, signedIn, autoPlay, interval, awaiting, modal, deducted,
                 rounds, autoCalls, leaderboard>>

\* the boosts whose timeout is pending
PendingBoosts ==
  BagCardinality([t \in {u \in BagToSet(timers) : u.kind = "boostExpiry"} |-> timers[t]])

\* purchaseXPBoost: payment.status === 'succeeded', or the "Buy Now" option
\* of the simulated purchase
boostPaid(payment) == payment \in {"succeeded", "Buy Now"}

\* purchaseXPBoost(boostType), up to the end of the payment or the option
\* clicked in the modal
purchaseXPBoost(boostType, payment) ==
  /\ PendingBoosts < MaxBoosts
  /\ IF signedIn /\ boostType \in DOMAIN Boosts /\ boostPaid(payment)
       THEN activateXPBoost(Boosts[boostType], timers)
       ELSE UNCHANGED <<xpBoostMultiplier, timers>>
  /\ UNCHANGED <<game, user, signedIn, autoPlay, climb, interval, awaiting, modal,
                 deducted, rounds, autoCalls, saved, leaderboard>>

\* the countdown of a FOMO event
isFomoCountdown(t) == t.kind = "fomoCountdown"

\* startRandomFOMOEvent(), at mount and then hourly, when it draws an event:
\* the hourly call is the one of the first render, whose
\* ui.activeFomoEventMessage is null.  activateFOMOEvent(event) replaces
\* the countdown of the previous event by its own.
startRandomFOMOEvent ==
  \E event \in FomoEvents :
    /\ xpBoostMultiplier' = IF event.type = "2x_xp_boost"
                               THEN event.multiplier ELSE xpBoostMultiplier
    /\ timers' = Put([t \in {u \in BagToSet(timers) : ~isFomoCountdown(u)} |-> timers[t]],
                     [kind |-> "fomoCountdown", type |-> event.type])
    /\ UNCHANGED <<game, user, signedIn, autoPlay, climb, interval, awaiting, modal,
                   deducted, rounds, autoCalls, saved, leaderboard>>

\* the countdown of a FOMO event reaches its end
fomoEnd(t) ==
  /\ isFomoCountdown(t)
  /\ xpBoostMultiplier' = NoBoost
  /\ timers' = Drop(timers, t)
  /\ UNCHANGED <<game, user, signedIn, autoPlay, climb, interval, awaiting, modal,
                 deducted, rounds, autoCalls, saved, leaderboard>>

\* a session in which boosts are bought and FOMO events come and go
NextBoost ==
  \/ \E boostType \in BoostTypes : \E payment \in Payments :
       purchaseXPBoost(boostType, payment)
  \/ startRandomFOMOEvent
  \/ \E t \in BagToSet(timers) : boostExpiry(t)
  \/ \E t \in BagToSet(timers) : fomoEnd(t)

SpecBoost == Init /\ [][NextBoost]_vars

\* timeouts and intervals fire once their time has come
SpecBoostFair ==
  /\ SpecBoost
  /\ WF_vars(\E t \in BagToSet(timers) : boostExpiry(t))
  /\ WF_vars(\E t \in BagToSet(timers) : fomoEnd(t))

\* A signed-in session whose stored record holds a win streak.
InitStreak ==
  /\ game = InitGame
  /\ signedIn = TRUE
  /\ \E n \in StoredStreaks :
       user = [InitUser EXCEPT !.xp = 250, !.currentStreak = n, !.winStreak = n]
  /\ xpBoostMultiplier = NoBoost
  /\ autoPlay = InitAutoPlay
  /\ climb = Closure(InitGame, InitUser, FALSE, InitAutoPlay)
  /\ interval = NoInterval
  /\ timers = EmptyBag
  /\ awaiting = EmptyBag
  /\ modal = [show |-> FALSE]
  /\ deducted = 0
  /\ rounds = 0
  /\ autoCalls = 0
  /\ saved = NoSave
  /\ leaderboard = <<>>

NextStreak ==
  \/ placeWager
  \/ tick
  \/ cashOut
  \/ \E t \in BagToSet(timers) : crashGame(t)
  \/ \E t \in BagToSet(timers) : reset(t)
  \/ \E w \in BagToSet(awaiting) : resume(w)
  \/ \E t \in BagToSet(timers) : triggerMysteryBox(t)
  \/ \E t \in BagToSet(timers) : mysteryReward(t)
  \/ \E t \in BagToSet(timers) : boostExpiry(t)

SpecStreak == InitStreak /\ [][NextStreak]_vars

\* ------------------------------------------------------------ daily streak
\* new Date().toISOString().split('T')[0] at the instant h: the UTC day
Today(h) == h \div 24

\* yesterday.setDate(yesterday.getDate() - 1) moves the instant to the same
\* local time of the day before, dayLength hours earlier; toISOString()
\* gives the UTC day of that instant
Yesterday(h, dayLength) == (h - dayLength) \div 24

\* updateDailyStreak() at the instant h, not before the last play
updateDailyStreak(h, dayLength) ==
  LET today == Today(h)
      lastPlay == user.lastPlayDate
      dailyStreak == IF lastPlay = Yesterday(h, dayLength)
                       THEN user.dailyStreak + 1 ELSE 1
      bonus == IF (user.dailyStreak + 1) >= 3 /\ (user.dailyStreak + 1) % 3 = 0
                 THEN StreakBonus * (dailyStreak + 1) ELSE 0 IN
  /\ today >= lastPlay
  /\ user' = IF ~signedIn \/ lastPlay = today
                THEN user
                ELSE IF lastPlay = NoDate
                  THEN [user EXCEPT !.dailyStreak = 1, !.lastPlayDate = today]
                  ELSE [user EXCEPT !.dailyStreak = dailyStreak,
                          !.lastPlayDate = today, !.xp = user.xp + bonus]
  /\ saved' = IF lastPlay = today
                 THEN saved
                 ELSE updateUserData(SaveClosure([signedIn |-> signedIn, xp |-> user.xp]))
  /\ climb' = Rerender(game, user', signedIn, autoPlay)
  /\ UNCHANGED <<game, signedIn, xpBoostMultiplier, autoPlay, interval, timers,
                 awaiting, modal, deducted, rounds, autoCalls, leaderboard>>

\* A signed-in session with the daily streak of its stored record.
InitDaily ==
  /\ game = InitGame
  /\ signedIn = TRUE
  /\ \E n \in StoredDailyStreaks : \E d \in StoredPlayDates :
       user = [InitUser EXCEPT !.xp = 250, !.dailyStreak = n, !.lastPlayDate = d]
  /\ xpBoostMultiplier = NoBoost
  /\ autoPlay = InitAutoPlay
  /\ climb = Closure(InitGame, InitUser, FALSE, InitAutoPlay)
  /\ interval = NoInterval
  /\ timers = EmptyBag
  /\ awaiting = EmptyBag
  /\ modal = [show |-> FALSE]
  /\ deducted = 0
  /\ rounds = 0
  /\ autoCalls = 0
  /\ saved = NoSave
  /\ leaderboard = <<>>

NextDaily ==
  \E h \in Hours : \E dayLength \in DayLengths : updateDailyStreak(h, dayLength)

SpecDaily == InitDaily /\ [][NextDaily]_vars

\* ------------------------------------------------ the policies of auto-play
\* the "Stop on win" checkbox
setStopOnWin(b) ==
  /\ autoPlay' = [autoPlay EXCEPT !.stopOnWin = b]
  /\ UNCHANGED <<game, user, signedIn, xpBoostMultiplier, climb, interval, timers,
                 awaiting, modal, deducted, rounds, autoCalls, saved, leaderboard>>

\* the "Stop on loss" checkbox
setStopOnLoss(b) ==
  /\ autoPlay' = [autoPlay EXCEPT !.stopOnLoss = b]
  /\ UNCHANGED <<game, user, signedIn, xpBoostMultiplier, climb, interval, timers,
                 awaiting, modal, deducted, rounds, autoCalls, saved, leaderboard>>

\* the "Auto cash out" checkbox
setAutoCashOut(b) ==
  /\ game' = [game EXCEPT !.autoCashOut = b]
  /\ UNCHANGED <<user, signedIn, xpBoostMultiplier, autoPlay, climb, interval,
                 timers, awaiting, modal, deducted, rounds, autoCalls, saved, leaderboard>>

\* the auto cash-out field
setCashOutAt(x) ==
  /\ autoPlay' = [autoPlay EXCEPT !.cashOutAt = x]
  /\ UNCHANGED <<game, user, signedIn, xpBoostMultiplier, climb, interval, timers,
                 awaiting, modal, deducted, rounds, autoCalls, saved, leaderboard>>

\* a signed-in session in which the player sets the stop policies before the
\* first wager and lets auto-play run without stopping it by hand
NextPolicy ==
  \/ rounds = 0 /\ placeWager
  \/ tick
  \/ cashOut
  \/ \E t \in BagToSet(timers) : crashGame(t)
  \/ \E t \in BagToSet(timers) : reset(t)
  \/ \E w \in BagToSet(awaiting) : resume(w)
  \/ autoPlayStart
  \/ \E t \in BagToSet(timers) : autoPoll(t)
  \/ \E t \in BagToSet(timers) : autoNext(t)
  \/ rounds = 0 /\ \E b \in BOOLEAN : setStopOnWin(b)
  \/ rounds = 0 /\ \E b \in BOOLEAN : setStopOnLoss(b)

SpecPolicy == InitAuto /\ [][NextPolicy]_vars

\* the max-rounds field
setMaxRounds(n) ==
  /\ autoPlay' = [autoPlay EXCEPT !.maxRounds = n]
  /\ UNCHANGED <<game, user, signedIn, xpBoostMultiplier, climb, interval, timers,
                 awaiting, modal, deducted, rounds, autoCalls, saved, leaderboard>>

\* a signed-in session in which the player sets the number of rounds and
\* lets auto-play run without stopping it by hand
NextRounds ==
  \/ rounds = 0 /\ placeWager
  \/ tick
  \/ cashOut
  \/ \E t \in BagToSet(timers) : crashGame(t)
  \/ \E t \in BagToSet(timers) : reset(t)
  \/ \E w \in BagToSet(awaiting) : resume(w)
  \/ autoPlayStart
  \/ \E t \in BagToSet(timers) : autoPoll(t)
  \/ \E t \in BagToSet(timers) : autoNext(t)
  \/ \E n \in MaxRoundsInputs : setMaxRounds(n)

SpecRounds == InitAuto /\ [][NextRounds]_vars

\* a signed-in session in which the player sets the auto cash-out policy
\* before the first wager and lets auto-play run without stopping it by hand
NextCashOut ==
  \/ rounds = 0 /\ \E b \in BOOLEAN : setAutoCashOut(b)
  \/ rounds = 0 /\ \E x \in CashOutAtInputs : setCashOutAt(x)
  \/ rounds = 0 /\ placeWager
  \/ tick
  \/ cashOut
  \/ \E t \in BagToSet(timers) : crashGame(t)
  \/ \E t \in BagToSet(timers) : reset(t)
  \/ \E w \in BagToSet(awaiting) : resume(w)
  \/ autoPlayStart
  \/ \E t \in BagToSet(timers) : autoPoll(t)
  \/ \E t \in BagToSet(timers) : autoNext(t)

SpecCashOut == InitAuto /\ [][NextCashOut]_vars

\* --------------------------------------------- the wager fields of the page
\* a session in which the player also types into the auto-play wager field
NextWager ==
  \/ \E amount \in WagerInputs : setWager(amount)
  \/ \E amount \in AutoWagerInputs : setAutoPlayWager(amount)
  \/ placeWager
  \/ tick
  \/ cashOut
  \/ \E t \in BagToSet(timers) : crashGame(t)
  \/ \E t \in BagToSet(timers) : reset(t)
  \/ \E t \in BagToSet(timers) : offerSecondChance(t)
  \/ \E w \in BagToSet(awaiting) : resume(w)
  \/ paySecondChance
  \/ declineSecondChance

SpecWager == Init /\ [][NextWager]_vars

\* --------------------------------------------- a session with a long history
\* the history after n crashed rounds, the latest first: each entry is the
\* crash point of the round before it
CrashedRounds(n) == [i \in 1..n |-> IF i % 2 = 1 THEN 150 ELSE 105]

\* A guest later in a session: the first round (which cannot crash) was
\* cashed out at 1.00 with the default wager, then n rounds with that wager
\* crashed and were reset; cp is the crash point of the last of them.
LaterGame(n, cp) ==
  [InitGame EXCEPT !.crashPoint = cp, !.lastRounds = CrashedRounds(n)]

LaterUser(n) ==
  [InitUser EXCEPT !.xp = StartXP - InitGame.userWagerXP * n,
     !.totalWagered = InitGame.userWagerXP, !.totalWon = InitGame.userWagerXP,
     !.gamesPlayed = 1, !.biggestWin = InitGame.userWagerXP,
     !.biggestMultiplier = StartMultiplier]

InitHistory ==
  /\ \E n \in {HistoryCap - 1, HistoryCap} : \E cp \in CrashPoints :
       /\ game = LaterGame(n, cp)
       /\ user = LaterUser(n)
       /\ climb = Closure(LaterGame(n, cp), LaterUser(n), FALSE, InitAutoPlay)
  /\ signedIn = FALSE
  /\ xpBoostMultiplier = NoBoost
  /\ autoPlay = InitAutoPlay
  /\ interval = NoInterval
  /\ timers = EmptyBag
  /\ awaiting = EmptyBag
  /\ modal = [show |-> FALSE]
  /\ deducted = InitGame.userWagerXP
  /\ rounds = 0
  /\ autoCalls = 0
  /\ saved = NoSave
  /\ leaderboard = <<>>

\* what a guest's session can do
NextHistory ==
  \/ placeWager
  \/ tick
  \/ cashOut
  \/ \E t \in BagToSet(timers) : crashGame(t)
  \/ \E t \in BagToSet(timers) : reset(t)
  \/ \E t \in BagToSet(timers) : offerSecondChance(t)

SpecHistory == InitHistory /\ [][NextHistory]_vars

\* -------------------------------------------------------------- leaderboard
\* user.id: the signed-in player's id, 'guest_user' for a guest
GuestId == "guest_user"
PlayerId == "user_1"
userId == IF signedIn THEN PlayerId ELSE GuestId

\* what whop.leaderboard.get() can return: up to MaxBoard entries, the
\* player's own among them or not, ties on xp and on biggestMultiplier
\* included.  biggestMultiplier is the two-decimal string of the entry, held
\* as the number of hundredths that parseFloat reads from it.
BoardIds == {PlayerId, "user_2", "user_3"}
BoardXPs == StoredXP
BoardMultipliers == {150, 200}
BoardEntries == [id : BoardIds, xp : BoardXPs, biggestMultiplier : BoardMultipliers]
LeaderboardData == UNION {[1..n -> BoardEntries] : n \in 0..MaxBoard}

\* generateDummyLeaderboard(): entries of made-up players, sorted by xp
DummyLeaderboards ==
  {<<[id |-> "dummy_user_0", xp |-> 250, biggestMultiplier |-> m, isCurrentUser |-> FALSE],
     [id |-> "dummy_user_1", xp |-> 40, biggestMultiplier |-> n, isCurrentUser |-> FALSE]>> :
     <<m, n>> \in BoardMultipliers \X BoardMultipliers}

\* leaderboardData.map(player => ({...player, isCurrentUser: player.id === id}))
markCurrentUser(leaderboardData, id) ==
  [i \in 1..Len(leaderboardData) |->
     [id |-> leaderboardData[i].id, xp |-> leaderboardData[i].xp,
      biggestMultiplier |-> leaderboardData[i].biggestMultiplier,
      isCurrentUser |-> leaderboardData[i].id = id]]

userFound(leaderboardData, id) ==
  \E i \in 1..Len(leaderboardData) : leaderboardData[i].id = id

\* a comparator that looks at xp alone
compareXP(a, b) == b.xp - a.xp

\* the comparator of tempLeaderboard.sort: negative puts a first
compare(a, b) ==
  IF b.xp # a.xp THEN b.xp - a.xp ELSE b.biggestMultiplier - a.biggestMultiplier

\* Array.prototype.sort with that comparator: stable, so an entry goes
\* behind every entry the comparator does not put after it
insert(sorted, e) ==
  LET k == Cardinality({i \in 1..Len(sorted) : compare(sorted[i], e) <= 0})
  IN  SubSeq(sorted, 1, k) \o <<e>> \o SubSeq(sorted, k + 1, Len(sorted))

RECURSIVE sort(_)
sort(list) ==
  IF list = <<>> THEN <<>>
  ELSE insert(sort(SubSeq(list, 1, Len(list) - 1)), list[Len(list)])

\* the entry pushed for the player; toFixed(2) prints the hundredths the
\* stored biggestMultiplier holds
userEntry(u, id) ==
  [id |-> id, xp |-> u.xp, biggestMultiplier |-> u.biggestMultiplier,
   isCurrentUser |-> TRUE]

\* tempLeaderboard of setupRealtimeLeaderboard for a signed-in player
mergeLeaderboard(leaderboardData, u, id) ==
  IF ~userFound(leaderboardData, id) /\ id # GuestId
    THEN sort(Append(markCurrentUser(leaderboardData, id), userEntry(u, id)))
    ELSE markCurrentUser(leaderboardData, id)

\* setupRealtimeLeaderboard() up to its await: a guest gets a made-up board
\* at once; for a signed-in player the handler waits for leaderboard.get(),
\* whose answer is the list in flight.  signInUser and the mount effect run
\* it once, while the board is still empty.
setupRealtimeLeaderboard(leaderboardData) ==
  /\ leaderboard = <<>>
  /\ \A w \in BagToSet(awaiting) : w.kind # "leaderboard"
  /\ IF ~signedIn
       THEN /\ leaderboard' \in DummyLeaderboards
            /\ UNCHANGED awaiting
       ELSE /\ awaiting' = awaiting (+) SetToBag({[kind |-> "leaderboard",
                                                  user |-> user, id |-> userId,
                                                  data |-> leaderboardData]})
            /\ UNCHANGED leaderboard
  /\ UNCHANGED <<game, user, signedIn, xpBoostMultiplier, autoPlay, climb,
                 interval, timers, modal, deducted, rounds, autoCalls, saved>>

\* the rest of setupRealtimeLeaderboard() once leaderboard.get() has
\* answered (ok) or thrown: it reads the user of the render that called it
gotLeaderboard(w, ok) ==
  /\ w.kind = "leaderboard"
  /\ awaiting' = awaiting (-) SetToBag({w})
  /\ leaderboard' = IF ok THEN mergeLeaderboard(w.data, w.user, w.id)
                          ELSE leaderboard
  /\ UNCHANGED <<game, user, signedIn, xpBoostMultiplier, autoPlay, climb,
                 interval, timers, modal, deducted, rounds, autoCalls, saved>>

\* the session once fetchUserData() has loaded the record: the stored xp and
\* the stored biggestMultiplier
InitBoard ==
  /\ game = InitGame
  /\ \/ signedIn = FALSE /\ user = InitUser
     \/ /\ signedIn = TRUE
        /\ \E x \in StoredXP : \E m \in BoardMultipliers :
             user = [InitUser EXCEPT !.xp = x, !.biggestMultiplier = m]
  /\ xpBoostMultiplier = NoBoost
  /\ autoPlay = InitAutoPlay
  /\ climb = Closure(InitGame, InitUser, FALSE, InitAutoPlay)
  /\ interval = NoInterval
  /\ timers = EmptyBag
  /\ awaiting = EmptyBag
  /\ modal = [show |-> FALSE]
  /\ deducted = 0
  /\ rounds = 0
  /\ autoCalls = 0
  /\ saved = NoSave
  /\ leaderboard = <<>>

NextBoard ==
  \/ \E leaderboardData \in LeaderboardData :
       setupRealtimeLeaderboard(leaderboardData)
  \/ \E w \in BagToSet(awaiting) : \E ok \in BOOLEAN : gotLeaderboard(w, ok)

SpecBoard == InitBoard /\ [][NextBoard]_vars

\* ------------------------------------------------------------------- claims
\* a step of crashGame
crashGameStep == \E t \in BagToSet(timers) : crashGame(t)

\* C1: placeWager called while no round is running, with a wager of at least
\* 10 and at most the balance, takes exactly the wager from xp and leaves
\* the round Running (isRunning true, isWaiting false).
PlaceWagerDeducts ==
  [][(/\ placeWager
      /\ ~game.isRunning
      /\ game.userWagerXP >= 10
      /\ game.userWagerXP <= user.xp)
     => (/\ user'.xp = user.xp - game.userWagerXP
         /\ game'.isRunning
         /\ ~game'.isWaiting)]_vars

\* C1: a guest's first round has just been placed
PlaceWagerDeductsWitness ==
  /\ ~signedIn
  /\ rounds = 1
  /\ game.isRunning /\ ~game.isWaiting
  /\ interval.active /\ interval.elapsed = 0
  /\ deducted = game.userWagerXP
  /\ user.xp = StartXP - deducted

\* C2: the balance is never negative, whatever operations ran.
XpNeverNegative == user.xp >= 0

\* C3: a round is settled once: a crash callback that fires on a round that
\* has been cashed out changes neither the player's record nor the round's
\* outcome.
SingleSettlement ==
  [][(crashGameStep /\ game.userCashedOut)
     => (user' = user /\ ~game'.isCrashed)]_vars

\* C4: while a round runs its multiplier is at most the crash point drawn
\* for that round, and so is the multiplier recorded by a cash-out.
MultiplierAtMostCrashPoint ==
  /\ game.isRunning => game.currentMultiplier <= game.crashPoint
  /\ game.userCashedOut => game.userCashOutMultiplier <= game.crashPoint

\* C5: a tick of a running round whose computed multiplier has reached the
\* round's crash point clamps the multiplier to exactly that crash point,
\* stops the climb timer and hands the round to crashGame.
ClampAtCrashPoint ==
  [][\A dt \in 0..1 :
       (/\ tickAt(dt)
        /\ game.isRunning
        /\ Multiplier(interval.elapsed + dt) >= game.crashPoint)
       => (/\ game'.currentMultiplier = game.crashPoint
           /\ ~interval'.active
           /\ \E t \in BagToSet(timers') : t.kind = "crashGame")]_vars

\* C6: a cash-out credits floor(wager * multiplier * boost) to xp, for the
\* multiplier at the time of the call and the wager that was deducted for
\* the round, and records that multiplier and those winnings.
CashOutPaysDeductedWager ==
  [][(cashOut /\ game.isRunning /\ ~game.userCashedOut)
     => LET winnings == Winnings(deducted, game.currentMultiplier, xpBoostMultiplier) IN
        /\ user'.xp = user.xp + winnings
        /\ game'.userWinningsXP = winnings
        /\ game'.userCashOutMultiplier = game.currentMultiplier]_vars

\* C7: the settlement of a round that crashes without a cash-out leaves xp
\* as it is: the wager is neither given back nor taken again.
CrashKeepsXp ==
  [][((crashGameStep /\ ~game.userCashedOut)
      \/ \E w \in BagToSet(awaiting) : w.kind = "crashGame" /\ resume(w))
     => user'.xp = user.xp]_vars

\* C7: a signed-in player's second round has crashed without a cash-out and
\* the balance is the one the wager left
CrashKeepsXpWitness ==
  /\ signedIn
  /\ game.isCrashed /\ ~game.isRunning /\ ~game.userCashedOut
  /\ user.currentStreak = 0
  /\ user.gamesPlayed = 2
  /\ user.xp + deducted = 250

\* C8: when a running round crashes without a cash-out, gamesPlayed grows by
\* one and totalWagered by the wager of that round, for a guest as for a
\* signed-in player.
CrashCountsRound ==
  [][(crashGameStep /\ game.isRunning /\ ~game.userCashedOut)
     => (/\ user'.gamesPlayed = user.gamesPlayed + 1
         /\ user'.totalWagered = user.totalWagered + deducted)]_vars

\* C9: placeWager called while a round is Running changes nothing: no xp is
\* taken, no crash point is drawn, the climb timer is not restarted.
PlaceWagerWhileRunning ==
  [][(placeWager /\ game.isRunning)
     => (/\ user' = user
         /\ game' = game
         /\ interval' = interval
         /\ rounds' = rounds)]_vars

\* C9: a round is running with a wager the balance would cover and a round
\* still to start
PlaceWagerWhileRunningWitness ==
  /\ game.isRunning
  /\ interval.active
  /\ game.userWagerXP > 0
  /\ game.userWagerXP <= user.xp
  /\ rounds < MaxRounds

\* C10: placeWager called in a state other than Waiting starts no round and
\* takes no xp.
PlaceWagerOnlyWhenWaiting ==
  [][(placeWager /\ ~game.isWaiting)
     => (/\ user'.xp = user.xp
         /\ rounds' = rounds
         /\ game'.crashPoint = game.crashPoint)]_vars

\* C12: placeWager called with a wager above the balance changes nothing:
\* xp, the stats, the round and its timer are as before.
PlaceWagerOverBalance ==
  [][(placeWager /\ game.userWagerXP > user.xp)
     => (/\ user' = user
         /\ game' = game
         /\ interval' = interval
         /\ rounds' = rounds)]_vars

\* C12: no round is running, a round could still start, and the wager is
\* above the balance
PlaceWagerOverBalanceWitness ==
  /\ ~game.isRunning
  /\ game.isWaiting
  /\ rounds < MaxRounds
  /\ game.userWagerXP > 0
  /\ game.userWagerXP > user.xp
  /\ user.xp >= 0

\* C13: cashOut called while the round is not Running, or after it has been
\* cashed out, changes nothing: xp, the stats, the recorded multiplier and
\* winnings, the round's flags and the pending timers are as before.
CashOutOutsideRunning ==
  [][(cashOut /\ (~game.isRunning \/ game.userCashedOut))
     => (/\ user' = user
         /\ game' = game
         /\ interval' = interval
         /\ timers' = timers
         /\ awaiting' = awaiting)]_vars

\* C13: a round has been cashed out and not yet reset
CashOutOutsideRunningWitness ==
  /\ ~game.isRunning
  /\ game.userCashedOut
  /\ game.userCashOutMultiplier # NoMultiplier
  /\ game.userWinningsXP > 0

\* C14: a settled round keeps its outcome: a round that has been cashed out
\* does not become Crashed and keeps its recorded multiplier and winnings
\* until it is reset or a new round starts, and a round that has crashed
\* without a cash-out does not become cashed out.
TerminalImmutable ==
  [][/\ (game.userCashedOut /\ game'.userCashedOut)
          => (/\ game'.isCrashed = game.isCrashed
              /\ game'.userCashOutMultiplier = game.userCashOutMultiplier
              /\ game'.userWinningsXP = game.userWinningsXP)
     /\ (game.isCrashed /\ ~game.userCashedOut /\ game'.isCrashed)
          => ~game'.userCashedOut]_vars

\* C17: every settlement puts exactly one entry at the head of the round
\* history: a cash-out the multiplier it was made at, a crash the crash
\* point of the round.
SettlementAppendsEntry ==
  [][/\ (cashOut /\ game.isRunning /\ ~game.userCashedOut)
          => game'.lastRounds =
               Take(<<game.currentMultiplier>> \o game.lastRounds, HistoryCap)
     /\ (game'.lastRounds # game.lastRounds /\ ~game.userCashedOut)
          => (/\ game'.isCrashed
              /\ game'.lastRounds =
                   Take(<<game.crashPoint>> \o game.lastRounds, HistoryCap))]_vars

\* C18: a round starts at 1.00 and, while it is Running, no step lowers
\* currentMultiplier.
MultiplierNonDecreasing ==
  [][/\ (rounds' # rounds) => game'.currentMultiplier = StartMultiplier
     /\ (game.isRunning /\ game'.isRunning /\ rounds' = rounds)
          => game'.currentMultiplier >= game.currentMultiplier]_vars

\* C18: a running round whose multiplier has climbed above 1.00
MultiplierNonDecreasingWitness ==
  /\ game.isRunning
  /\ interval.active
  /\ interval.elapsed > 0
  /\ game.currentMultiplier > StartMultiplier

\* C16: the round history never holds more than 10 entries; a new entry goes
\* to the head, the entries before it keep their order, and when the history
\* is full the oldest entry is dropped.
HistoryCapped ==
  [][/\ Len(game'.lastRounds) <= HistoryCap
     /\ game'.lastRounds # game.lastRounds
          => (/\ Len(game'.lastRounds) =
                   IF Len(game.lastRounds) < HistoryCap
                     THEN Len(game.lastRounds) + 1 ELSE HistoryCap
              /\ \A i \in 2..Len(game'.lastRounds) :
                   game'.lastRounds[i] = game.lastRounds[i - 1])]_vars

\* C16: two rounds crashed on a history of 9 or 10 entries: the history is
\* full, holds their two entries first, and has dropped its oldest
HistoryCappedWitness ==
  /\ rounds = 2
  /\ Len(game.lastRounds) = HistoryCap
  /\ game.lastRounds[1] = 105
  /\ game.lastRounds[2] = 105
  /\ \A i \in 3..HistoryCap : game.lastRounds[i] = CrashedRounds(HistoryCap)[i - 2]

\* C11: a call of placeWager with a wager below 10 (typed into the auto-play
\* wager field, which the effect copies to game.userWagerXP) changes nothing.
PlaceWagerBelowMinimum ==
  [][(placeWager /\ game.userWagerXP < WagerStep) => UNCHANGED vars]_vars

\* C15: the timeout that follows a settlement puts the game back to Waiting,
\* so that every settled round is followed by a Waiting game.
SettlementResets ==
  [][(\E t \in BagToSet(timers) : reset(t)) => game'.isWaiting]_vars

\* C19: auto-play started by a signed-in player who is between rounds and can
\* pay the wager, with maxRounds = N > 0, plays the first of its N rounds.
AutoPlayPlaysRounds ==
  [][(/\ autoPlayStart
      /\ signedIn /\ ~autoPlay.enabled /\ ~autoPlay.isExecutingAutoRound
      /\ ~game.isRunning /\ ~wagerRejected(game, user)
      /\ user.xp >= autoPlay.wagerAmount /\ autoPlay.maxRounds > 0)
       => (autoPlay'.enabled /\ autoPlay'.currentRound = 1 /\ rounds' = rounds + 1)]_vars

AutoPlayStopIdempotent ==
  [][autoPlayStop => (/\ ~autoPlay'.enabled
                      /\ autoPlay'.currentRound = 0
                      /\ autoPlayStopped(autoPlay') = autoPlay')]_vars

\* auto-play was stopped after it had placed a round: its poll is pending
AutoPlayStopIdempotentWitness ==
  /\ ~autoPlay.enabled
  /\ autoPlay.currentRound = 0
  /\ \E t \in BagToSet(timers) : t.kind = "autoPoll" /\ t.closure.enabled

StreakFollowsOutcome ==
  [][signedIn =>
       /\ (cashOut /\ ~cashOutRejected(game))
            => /\ user'.currentStreak = user.currentStreak + 1
               /\ user'.winStreak = Max(user.winStreak, user'.currentStreak)
       /\ (crashGameStep /\ game.isRunning /\ ~game.userCashedOut)
            => user'.currentStreak = 0
       /\ (crashGameStep /\ game.userCashedOut)
            => user'.currentStreak = user.currentStreak
       /\ user'.winStreak >= user'.currentStreak]_vars

\* the Mystery Box draws that are scheduled
MysteryBoxCount ==
  BagCardinality([t \in {u \in BagToSet(timers) : u.kind = "triggerMysteryBox"} |-> timers[t]])

\* C27: a cash-out that brings currentStreak to a positive multiple of 5
\* schedules one Mystery Box draw, and no other step schedules one.
MysteryBoxOnFifthWin ==
  [][/\ (cashOut /\ ~cashOutRejected(game)
           /\ user'.currentStreak > 0 /\ user'.currentStreak % 5 = 0)
          => MysteryBoxCount' = MysteryBoxCount + 1
     /\ MysteryBoxCount' > MysteryBoxCount
          => /\ cashOut /\ ~cashOutRejected(game)
             /\ user'.currentStreak = user.currentStreak + 1
             /\ user'.currentStreak % 5 = 0
             /\ MysteryBoxCount' = MysteryBoxCount + 1]_vars

\* the fifth win in a row has scheduled its draw
MysteryBoxOnFifthWinWitness ==
  MysteryBoxCount = 1 /\ user.currentStreak = 5 /\ game.userCashedOut

\* C28: xpBoostMultiplier is never below 1.0, and whenever a boost is in
\* effect xpBoostMultiplier is later back at 1.0.
BoostExpires ==
  /\ [](xpBoostMultiplier >= NoBoost)
  /\ (xpBoostMultiplier > NoBoost) ~> (xpBoostMultiplier = NoBoost)

\* a boost is in effect and its timeout is pending
BoostExpiresWitness ==
  /\ xpBoostMultiplier > NoBoost
  /\ \E t \in BagToSet(timers) : t.kind = "boostExpiry" /\ t.multiplier = xpBoostMultiplier

\* C29: the expiry of a boost or of a FOMO event acts on its own boost only:
\* it does not end a boost that was activated after it.
ExpiryEndsOwnBoost ==
  [][\A t \in BagToSet(timers) :
       /\ (boostExpiry(t) /\ t.multiplier # xpBoostMultiplier)
            => xpBoostMultiplier' = xpBoostMultiplier
       /\ (fomoEnd(t) /\ PendingBoosts > 0
              /\ \E b \in BagToSet(timers) :
                    b.kind = "boostExpiry" /\ b.multiplier = xpBoostMultiplier)
            => xpBoostMultiplier' = xpBoostMultiplier]_vars

\* C30: for a signed-in player with a last play date, updateDailyStreak adds
\* exactly one to dailyStreak when that date is the day before today,
\* changes nothing when it is today, and puts dailyStreak to 1 when it is
\* older.
DailyStreakUpdate ==
  [][\A h \in Hours : \A dayLength \in DayLengths :
       (updateDailyStreak(h, dayLength) /\ signedIn /\ user.lastPlayDate # NoDate)
         => /\ user.lastPlayDate = Today(h) - 1
                 => user'.dailyStreak = user.dailyStreak + 1
            /\ user.lastPlayDate = Today(h) => user' = user
            /\ user.lastPlayDate < Today(h) - 1 => user'.dailyStreak = 1]_vars

\* C31: an update of the daily streak (on a day without a clock change)
\* credits a bonus exactly when the updated dailyStreak is a multiple of 3,
\* and the bonus is 100 times the updated dailyStreak.
DailyStreakBonus ==
  [][\A h \in Hours :
       (updateDailyStreak(h, 24) /\ signedIn)
         => user'.xp = user.xp +
              (IF user' # user /\ user'.dailyStreak >= 3 /\ user'.dailyStreak % 3 = 0
                 THEN StreakBonus * user'.dailyStreak ELSE 0)]_vars

\* C32: in a guest session no record is ever handed to the persistence
\* service and no handler ever waits for it, while rounds are played.
GuestNeverSaves == ~signedIn => (saved = NoSave /\ awaiting = EmptyBag)

\* a guest cashed the first round out and the second round has crashed
GuestNeverSavesWitness ==
  /\ ~signedIn
  /\ rounds = 2
  /\ user.totalWon > 0
  /\ game.isCrashed /\ ~game.isRunning /\ ~game.userCashedOut
  /\ Len(game.lastRounds) >= 1

\* C33: a settlement by a signed-in player (a cash-out, or the crash of a
\* round that was not cashed out) hands a record to the persistence service,
\* and that record holds the xp the settlement left.
SettlementSaved ==
  [][signedIn =>
       /\ (cashOut /\ ~cashOutRejected(game)) => saved' = user'.xp
       /\ (crashGameStep /\ game.isRunning /\ ~game.userCashedOut)
            => saved' = user'.xp]_vars

\* the handlers suspended at a write of the player's record
SaveKinds == {"crashGame", "cashOut", "secondChance"}

\* C34: when a write of the player's record fails, the handler that awaited
\* it leaves xp and the stats as they are and runs on: a settlement goes on
\* to schedule the return to Waiting, the second chance puts the game back
\* to Waiting.
SaveFailureKeepsState ==
  [][\A w \in BagToSet(awaiting) :
       (settle(w, FALSE) /\ w.kind \in SaveKinds)
         => /\ user' = user
            /\ w.kind = "secondChance" => game'.isWaiting
            /\ w.kind # "secondChance"
                 => \E t \in BagToSet(timers') : t.kind \in {"reset", "offerSecondChance"}]_vars

\* a signed-in player's cash-out has run on after its write settled: the
\* reset is pending and xp holds the winnings
SaveFailureKeepsStateWitness ==
  /\ signedIn
  /\ rounds = 1
  /\ game.userCashedOut /\ ~game.isRunning
  /\ awaiting = EmptyBag
  /\ \E t \in BagToSet(timers) : t.kind = "reset"
  /\ game.userWinningsXP > 0
  /\ user.xp = 250 - deducted + game.userWinningsXP
  /\ saved # user.xp

\* C35: a step in which cashOut or crashGame comes to wait for a write of the
\* player's record has completed the settlement before: the return to
\* Waiting (the reset timeout or the second-chance offer) is scheduled, and
\* a crash has put its entry into the round history.
SettlementBeforeSave ==
  [][\A w \in BagToSet(awaiting') :
       (w.kind \in {"crashGame", "cashOut"} /\ CopiesIn(w, awaiting') > CopiesIn(w, awaiting))
         => /\ \E t \in BagToSet(timers') :
                  /\ t.kind \in {"reset", "offerSecondChance"}
                  /\ CopiesIn(t, timers') > CopiesIn(t, timers)
            /\ w.kind = "crashGame" => game'.lastRounds # game.lastRounds]_vars

\* C36: a purchase whose payment did not come back succeeded (it failed, is
\* pending, threw, gave no payment, or there was no payment at all), or
\* whose boost type is unknown, leaves xpBoostMultiplier as it is.
BoostOnlyWhenPaid ==
  [][\A boostType \in BoostTypes : \A payment \in Payments :
       (/\ purchaseXPBoost(boostType, payment)
        /\ (payment # "succeeded" \/ boostType \notin DOMAIN Boosts))
         => xpBoostMultiplier' = xpBoostMultiplier]_vars

\* C37: the crash point a round is created with is above 1.00 and lies in
\* the range of the bucket of the first draw: [1.01, 1.51) below 0.50,
\* [1.50, 3.00) below 0.80, [3.00, 10.00) below 0.95, [10.00, 50.00) from
\* there; and it is drawn when a round is created and at no other step.
CrashPointInBucket ==
  [][/\ \A random \in Randoms : \A second \in Seconds :
          (placeWagerFrom({generateCrashPoint(random, second)}) /\ rounds' # rounds)
            => LET cp == game'.crashPoint IN
               /\ cp > 100
               /\ random < 50 => (cp >= 101 /\ cp < 151)
               /\ (random >= 50 /\ random < 80) => (cp >= 150 /\ cp < 300)
               /\ (random >= 80 /\ random < 95) => (cp >= 300 /\ cp < 1000)
               /\ random >= 95 => (cp >= 1000 /\ cp < 5000)
     /\ game'.crashPoint # game.crashPoint => rounds' = rounds + 1
     /\ rounds' # rounds => game'.crashPoint \in DrawnCrashPoints]_vars

\* a second round runs with a crash point of the highest bucket, after a
\* first round with one of the lowest
CrashPointInBucketWitness ==
  /\ rounds = 2
  /\ game.isRunning
  /\ game.crashPoint >= 1000
  /\ interval.active /\ interval.crashPoint = 101

\* the reward whose span of cumulative weight holds random (in tenths)
RewardOfSpan(random) ==
  IF random < 50 THEN rewards[1]
  ELSE IF random < 70 THEN rewards[2]
  ELSE IF random < 80 THEN rewards[3]
  ELSE rewards[4]

\* C38: the Mystery Box draw hands out the reward in whose span r lies:
\* [0, 5) 500 XP, [5, 7) 1000 XP, [7, 8) the cosmetic, [8, 10) the boost;
\* the fallback to the first reward is not reached.
MysteryBoxDraw ==
  [][\A t \in BagToSet(timers) : \A random \in RewardDraws :
       (triggerMysteryBoxDrawing(t, random) /\ signedIn)
         => /\ ~getWeightedRandomReward(rewards, random).fallback
            /\ \E n \in BagToSet(timers') :
                 /\ n.kind = "mysteryReward"
                 /\ n.reward = RewardOfSpan(random)
                 /\ CopiesIn(n, timers') > CopiesIn(n, timers)]_vars

\* a draw has picked the last reward of the list, the boost
MysteryBoxDrawWitness ==
  \E t \in BagToSet(timers) :
    t.kind = "mysteryReward" /\ t.reward.type = "multiplier_boost"

\* a board in the order the claim names: xp descending, equal xp by
\* biggestMultiplier descending
sortedBoard(board) ==
  \A i \in 1..(Len(board) - 1) :
    \/ board[i].xp > board[i + 1].xp
    \/ /\ board[i].xp = board[i + 1].xp
       /\ board[i].biggestMultiplier >= board[i + 1].biggestMultiplier

\* the entries of a board that hold the given xp and biggestMultiplier, in
\* the order the board lists them
tied(board, x, m) ==
  SelectSeq(board, LAMBDA e : e.xp = x /\ e.biggestMultiplier = m)

\* C39: every entry of the board that setupRealtimeLeaderboard sets is
\* marked as the current user exactly when it holds the player's id; when
\* the fetched list lacks the player's id, the board is the fetched entries
\* plus the player's entry, sorted by xp descending and, for equal xp, by
\* biggestMultiplier descending; and the order is the same for the same
\* inputs: entries equal on both stay in the order they were fetched, the
\* player's entry behind them.
LeaderboardMerge ==
  [][/\ \A i \in DOMAIN leaderboard' :
          leaderboard'[i].isCurrentUser <=> (leaderboard'[i].id = userId)
     /\ \A w \in BagToSet(awaiting) :
          (gotLeaderboard(w, TRUE) /\ ~userFound(w.data, w.id)) =>
            /\ Len(leaderboard') = Len(w.data) + 1
            /\ sortedBoard(leaderboard')
            /\ \A x \in BoardXPs : \A m \in BoardMultipliers :
                 tied(leaderboard', x, m) =
                   tied(Append(markCurrentUser(w.data, w.id), userEntry(w.user, w.id)), x, m)]_vars

\* the player's entry was put between two fetched ones: behind one with the
\* same xp and a larger biggestMultiplier, before one with less xp
LeaderboardMergeWitness ==
  /\ signedIn
  /\ Len(leaderboard) = 3
  /\ leaderboard[2].isCurrentUser /\ leaderboard[2].id = userId
  /\ ~leaderboard[1].isCurrentUser /\ ~leaderboard[3].isCurrentUser
  /\ leaderboard[1].xp = leaderboard[2].xp
  /\ leaderboard[1].biggestMultiplier > leaderboard[2].biggestMultiplier
  /\ leaderboard[3].xp < leaderboard[2].xp

\* C40: in every reachable state the round is not both Waiting and Running,
\* not both Running and Crashed, not both Crashed and cashed out, and a
\* cashed-out round has its cash-out multiplier set.
RoundFlags ==
  /\ ~(game.isWaiting /\ game.isRunning)
  /\ ~(game.isRunning /\ game.isCrashed)
  /\ ~(game.isCrashed /\ game.userCashedOut)
  /\ game.userCashedOut => game.userCashOutMultiplier # NoMultiplier

====
